---- MODULE Spec2Model ----
(***************************************************************************)
(* State-machine model of src/flasher/flash_esp32.py: the ESP32 one-touch  *)
(* flashing script.  One run of the script is one behaviour: main() is     *)
(* walked statement group by statement group, every subprocess, download   *)
(* and file-system answer being a nondeterministic input.                  *)
(***************************************************************************)
EXTENDS Integers, Sequences, FiniteSets, TLC

VARIABLES
  pc,                  \* position in main(); "exited" once the process ended
  args,                \* argparse namespace: port, firmware, no_erase, keep_firmware, baud
  files,               \* the files that currently exist on disk
  esptool_path,        \* main's esptool_path (result of find_esptool)
  probes,              \* subprocess attempts made by find_esptool, in order
  ports,               \* main's ports list
  idx,                 \* 1-based position of the for-loop over ports
  firmware_path,       \* main's firmware_path
  downloaded_firmware, \* main's downloaded_firmware
  success_count,       \* main's success_count
  procs,               \* run_esptool invocations made so far, in order
  outcomes,            \* per-port result lines printed by the loop, in order
  removal,             \* what the cleanup block did with the temporary file
  summary,             \* the final summary line (succeeded/total), once printed
  exit_code,           \* process exit status, -1 while running
  exit_reason          \* which statement ended the process

vars == <<pc, args, files, esptool_path, probes, ports, idx, firmware_path,
          downloaded_firmware, success_count, procs, outcomes, removal,
          summary, exit_code, exit_reason>>

-----------------------------------------------------------------------------
(* Bounds and program constants *)

MaxPorts == 2

DefaultBaud == 460800

None == "None"

PortIds == 1..MaxPorts

\* args.firmware: two URL forms and one local path
HttpsUrl == "https://host/fw.bin"
HttpUrl == "http://host/fw.bin"
LocalFirmware == "fw.bin"
TempFirmware == "tmpdir/fw.bin"
BootloaderFile == "script_dir/partition/bootloader.bin"
PartitionsFile == "script_dir/partition/partitions.bin"

\* firmware_path.startswith('http://') or firmware_path.startswith('https://')
IsUrl(source) == source \in {HttpUrl, HttpsUrl}

ProbeResults == {"zero", "nonzero", "raised"}

-----------------------------------------------------------------------------
(* find_esptool *)

possible_paths == <<"esptool.py", "esptool", "sys_executable_bin_esptool">>

LookupName == "which_or_where"
ModuleName == "python_m_esptool"

ProbeTargets == {LookupName, ModuleName} \cup {possible_paths[i] : i \in 1..Len(possible_paths)}

\* the last strategy: [sys.executable, '-m', 'esptool', 'version']
probe_module(env) ==
  LET r == env[ModuleName]
      e == [tool |-> ModuleName, cmd |-> "version", rc |-> r]
  IN  [ret |-> IF r = "zero" THEN ModuleName ELSE None, trail |-> <<e>>]

\* probe_paths without the early return: a later success overwrites an earlier one
RECURSIVE probe_paths_no_return(_, _)
probe_paths_no_return(env, i) ==
  IF i > Len(possible_paths) THEN probe_module(env)
  ELSE LET path == possible_paths[i]
           r == env[path]
           e == [tool |-> path, cmd |-> "version", rc |-> r]
           rest == probe_paths_no_return(env, i + 1)
       IN  [ret |-> IF rest.ret # None THEN rest.ret
                    ELSE IF r = "zero" THEN path ELSE None,
            trail |-> <<e>> \o rest.trail]

\* for path in possible_paths: run [path, 'version']; return path on status 0
RECURSIVE probe_paths(_, _)
probe_paths(env, i) ==
  IF i > Len(possible_paths) THEN probe_module(env)
  ELSE LET path == possible_paths[i]
           r == env[path]
           e == [tool |-> path, cmd |-> "version", rc |-> r]
       IN  IF r = "zero"
           THEN [ret |-> path, trail |-> <<e>>]
           ELSE LET rest == probe_paths(env, i + 1)
                IN  [ret |-> rest.ret, trail |-> <<e>> \o rest.trail]

\* which/where esptool.py first; its own zero status is enough to return
\* the first line of its output (taken to be a non-empty path)
find_esptool(env) ==
  LET r == env[LookupName]
      e == [tool |-> LookupName, cmd |-> "lookup", rc |-> r]
  IN  IF r = "zero"
      THEN [ret |-> "which_stdout_first_line", trail |-> <<e>>]
      ELSE LET rest == probe_paths(env, 1)
           IN  [ret |-> rest.ret, trail |-> <<e>> \o rest.trail]

-----------------------------------------------------------------------------
(* find_esp32_ports *)

Min(S) == CHOOSE x \in S : \A y \in S : x <= y

RECURSIVE sorted(_)
sorted(S) == IF S = {} THEN <<>> ELSE <<Min(S)>> \o sorted(S \ {Min(S)})

\* sorted(set(ports)) of whatever devices are attached
find_esp32_ports(attached) == sorted(attached)

-----------------------------------------------------------------------------
(* run_esptool, erase_flash, write_flash *)

\* lines 139-146: the argument vector handed to subprocess.run
esptool_cmd(tool, port, command, cmdargs, baud) ==
  LET base_args == <<"--chip", "esp32", "--port", port>>
                   \o (IF baud # 0 THEN <<"--baud", ToString(baud)>> ELSE <<>>)
      prefix == IF tool = ModuleName THEN <<"python", "-m", "esptool">>
                ELSE <<tool>>
  IN  prefix \o base_args \o <<command>> \o cmdargs

\* run_esptool printing the captured stderr unconditionally
run_esptool_always_stderr(tool, port, command, cmdargs, baud, result) ==
  [command |-> command, port |-> port,
   rc |-> result.rc, out |-> result.out,
   printed_err |-> (result.rc # "raised"),
   printed_out |-> (result.rc = "zero" /\ result.out),
   ret |-> IF result.rc = "raised" THEN "raise"
           ELSE IF result.rc = "zero" THEN "True" ELSE "False"]

\* result: [rc, out] of subprocess.run, out = "captured stdout is non-empty"
\* of the call the log keeps the command and port, what subprocess.run
\* answered, what was printed and what run_esptool returned
run_esptool(tool, port, command, cmdargs, baud, result) ==
  [command |-> command, port |-> port,
   rc |-> result.rc, out |-> result.out,
   printed_err |-> (result.rc = "nonzero"),
   printed_out |-> (result.rc = "zero" /\ result.out),
   ret |-> IF result.rc = "raised" THEN "raise"
           ELSE IF result.rc = "zero" THEN "True" ELSE "False"]

\* erase_flash dropping run_esptool's return value
erase_flash_unchecked(tool, port, result) ==
  [run_esptool(tool, port, "erase_flash", <<>>, 0, result) EXCEPT
     !.ret = IF result.rc = "raised" THEN "raise" ELSE "True"]

erase_flash(tool, port, result) ==
  run_esptool(tool, port, "erase_flash", <<>>, 0, result)

write_flash(tool, port, bootloader, partitions, firmware, baud, result) ==
  run_esptool(tool, port, "write_flash",
              <<"0x1000", bootloader, "0x8000", partitions, "0x10000", firmware>>,
              baud, result)

\* what subprocess.run can do: return a status with captured output, or raise
RunResults == [rc : {"zero", "nonzero"}, out : BOOLEAN]
                \cup {[rc |-> "raised", out |-> FALSE]}

-----------------------------------------------------------------------------
(* main *)

Init ==
  /\ pc = "find_esptool"
  /\ args \in [port : {0} \cup PortIds,
               firmware : {HttpsUrl, HttpUrl, LocalFirmware},
               no_erase : BOOLEAN,
               keep_firmware : BOOLEAN,
               baud : {DefaultBaud}]
  /\ files \in SUBSET ({BootloaderFile, PartitionsFile}
                       \cup IF IsUrl(args.firmware) THEN {} ELSE {LocalFirmware})
  /\ esptool_path = None
  /\ probes = <<>>
  /\ ports = <<>>
  /\ idx = 0
  /\ firmware_path = None
  /\ downloaded_firmware = None
  /\ success_count = 0
  /\ procs = <<>>
  /\ outcomes = <<>>
  /\ removal = "none"
  /\ summary = <<>>
  /\ exit_code = -1
  /\ exit_reason = None

\* os.path.exists without looking at the disk
path_exists_unchecked(path, disk) == TRUE

\* os.path.exists(path)
path_exists(path, disk) == path \in disk

\* "if not ports" treating every list as usable
ports_found_unchecked(found) == TRUE

\* line 212: "if not ports" is the negation of this
ports_found(found) == found # <<>>

sys_exit(code, why) ==
  /\ pc' = "exited"
  /\ exit_code' = code
  /\ exit_reason' = why

Running == /\ exit_code' = exit_code
           /\ exit_reason' = exit_reason

\* what the five probes can answer: each returns a status or raises
ProbeEnvs == [ProbeTargets -> ProbeResults]

\* the answers in which every probe returns a status
ReturningEnvs == [ProbeTargets -> {"zero", "nonzero"}]

\* lines 197-204, the probes answering as one of envs
Locate(envs) ==
  /\ pc = "find_esptool"
  /\ \E env \in envs :
       LET found == find_esptool(env)
       IN  /\ probes' = found.trail
           /\ esptool_path' = found.ret
           /\ IF found.ret = None
              THEN sys_exit(1, "tool_not_found")
              ELSE pc' = "ports" /\ Running
  /\ UNCHANGED <<args, files, ports, idx, firmware_path, downloaded_firmware,
                 success_count, procs, outcomes, removal, summary>>

\* lines 206-216
ResolvePorts ==
  /\ pc = "ports"
  /\ \/ /\ args.port # 0
        /\ ports' = <<args.port>>
        /\ pc' = "firmware" /\ Running
     \/ /\ args.port = 0
        /\ \E attached \in SUBSET PortIds :
             /\ ports' = find_esp32_ports(attached)
             /\ IF ~ports_found(ports')
                THEN sys_exit(1, "no_ports")
                ELSE pc' = "firmware" /\ Running
     \/ /\ args.port = 0          \* the serial enumeration import raises
        /\ ports' = ports
        /\ sys_exit(1, "exception")
  /\ UNCHANGED <<args, files, esptool_path, probes, idx, firmware_path,
                 downloaded_firmware, success_count, procs, outcomes, removal,
                 summary>>

\* lines 218-227, with download_firmware (117-135)
AcquireFirmware ==
  /\ pc = "firmware"
  /\ IF IsUrl(args.firmware)
     THEN \E fetched \in BOOLEAN :
            IF fetched
            THEN /\ files' = files \cup {TempFirmware}
                 /\ firmware_path' = TempFirmware
                 /\ downloaded_firmware' = TempFirmware
                 /\ pc' = "check_firmware" /\ Running
            ELSE /\ files' = files
                 /\ firmware_path' = None
                 /\ downloaded_firmware' = None
                 /\ sys_exit(1, "download_failed")
     ELSE /\ files' = files
          /\ firmware_path' = args.firmware
          /\ downloaded_firmware' = None
          /\ pc' = "check_firmware" /\ Running
  /\ UNCHANGED <<args, esptool_path, probes, ports, idx, success_count, procs,
                 outcomes, removal, summary>>

\* lines 229-232
CheckFirmware ==
  /\ pc = "check_firmware"
  /\ IF ~path_exists(firmware_path, files)
     THEN sys_exit(1, "firmware_missing")
     ELSE pc' = "check_bootloader" /\ Running
  /\ UNCHANGED <<args, files, esptool_path, probes, ports, idx, firmware_path,
                 downloaded_firmware, success_count, procs, outcomes, removal,
                 summary>>

\* lines 234-241
CheckBootloader ==
  /\ pc = "check_bootloader"
  /\ IF ~path_exists(BootloaderFile, files)
     THEN sys_exit(1, "bootloader_missing")
     ELSE pc' = "check_partitions" /\ Running
  /\ UNCHANGED <<args, files, esptool_path, probes, ports, idx, firmware_path,
                 downloaded_firmware, success_count, procs, outcomes, removal,
                 summary>>

\* where the for-loop over ports goes after finishing position i
loop_next(i) == IF i < Len(ports) THEN "erase" ELSE "cleanup"

\* lines 243-249: the partition check, then entry into the loop
CheckPartitions ==
  /\ pc = "check_partitions"
  /\ IF ~path_exists(PartitionsFile, files)
     THEN sys_exit(1, "partitions_missing") /\ idx' = idx
     ELSE pc' = loop_next(0) /\ idx' = 1 /\ Running
  /\ UNCHANGED <<args, files, esptool_path, probes, ports, firmware_path,
                 downloaded_firmware, success_count, procs, outcomes, removal,
                 summary>>

\* a failed erase ending the whole loop (break instead of continue)
after_erase_failure_break(i) == [pc |-> "cleanup", idx |-> i]

\* a failed erase falling through to the write block (continue missing)
after_erase_failure_fallthrough(i) == [pc |-> "write", idx |-> i]

\* line 258: continue
after_erase_failure(i) == [pc |-> loop_next(i), idx |-> i + 1]

\* lines 249-261: the erase block of one loop iteration
EraseStep ==
  /\ pc = "erase"
  /\ IF ~args.no_erase
     THEN \E result \in RunResults :
            LET call == erase_flash(esptool_path, ports[idx], result)
            IN  /\ procs' = Append(procs, [target |-> idx, call |-> call])
                /\ CASE call.ret = "raise" ->
                          /\ sys_exit(1, "exception")
                          /\ UNCHANGED <<idx, outcomes>>
                     [] call.ret = "False" ->
                          /\ outcomes' = Append(outcomes,
                               [target |-> idx, outcome |-> "EraseFailed"])
                          /\ idx' = after_erase_failure(idx).idx
                          /\ pc' = after_erase_failure(idx).pc /\ Running
                     [] call.ret = "True" ->
                          /\ pc' = "write" /\ Running
                          /\ UNCHANGED <<idx, outcomes>>
     ELSE /\ pc' = "write" /\ Running
          /\ UNCHANGED <<idx, outcomes, procs>>
  /\ UNCHANGED <<args, files, esptool_path, probes, ports, firmware_path,
                 downloaded_firmware, success_count, removal, summary>>

\* the tally incremented for every write attempt
count_write_always(count, ok) == count + 1

\* lines 264-269: success_count += 1 only in the success branch
count_write(count, ok) == IF ok THEN count + 1 ELSE count

\* lines 263-269: the write block of one loop iteration
WriteStep ==
  /\ pc = "write"
  /\ \E result \in RunResults :
       LET call == write_flash(esptool_path, ports[idx], BootloaderFile,
                               PartitionsFile, firmware_path, args.baud, result)
       IN  /\ procs' = Append(procs, [target |-> idx, call |-> call])
           /\ CASE call.ret = "raise" ->
                     /\ sys_exit(1, "exception")
                     /\ UNCHANGED <<idx, outcomes, success_count>>
                [] call.ret = "True" ->
                     /\ outcomes' = Append(outcomes,
                          [target |-> idx, outcome |-> "Success"])
                     /\ success_count' = count_write(success_count, TRUE)
                     /\ idx' = idx + 1
                     /\ pc' = loop_next(idx) /\ Running
                [] call.ret = "False" ->
                     /\ outcomes' = Append(outcomes,
                          [target |-> idx, outcome |-> "WriteFailed"])
                     /\ success_count' = count_write(success_count, FALSE)
                     /\ idx' = idx + 1
                     /\ pc' = loop_next(idx) /\ Running
  /\ UNCHANGED <<args, files, esptool_path, probes, ports, firmware_path,
                 downloaded_firmware, removal, summary>>

\* lines 271-277: os.remove may fail; the bare except swallows it
Cleanup ==
  /\ pc = "cleanup"
  /\ IF downloaded_firmware # None /\ ~args.keep_firmware
     THEN \E removed \in BOOLEAN :
            IF removed
            THEN files' = files \ {downloaded_firmware} /\ removal' = "removed"
            ELSE files' = files /\ removal' = "failed"
     ELSE files' = files /\ removal' = "skipped"
  /\ pc' = "summary" /\ Running
  /\ UNCHANGED <<args, esptool_path, probes, ports, idx, firmware_path,
                 downloaded_firmware, success_count, procs, outcomes, summary>>

\* an exit status that reports partial failure
status_after_main_strict(succeeded, total) == IF succeeded = total THEN 0 ELSE 1

\* lines 281-289: main() returns whatever the tally, so the status is 0
status_after_main(succeeded, total) == 0

\* lines 279-285, then main returns and the interpreter exits normally
Summary ==
  /\ pc = "summary"
  /\ summary' = <<[succeeded |-> success_count, total |-> Len(ports),
                   all_ok |-> (success_count = Len(ports))]>>
  /\ sys_exit(status_after_main(success_count, Len(ports)), "completed")
  /\ UNCHANGED <<args, files, esptool_path, probes, ports, idx, firmware_path,
                 downloaded_firmware, success_count, procs, outcomes, removal>>

\* lines 287-292: Ctrl-C while main runs
Interrupt ==
  /\ pc # "exited"
  /\ sys_exit(1, "interrupt")
  /\ UNCHANGED <<args, files, esptool_path, probes, ports, idx, firmware_path,
                 downloaded_firmware, success_count, procs, outcomes, removal,
                 summary>>

LocateTool == Locate(ReturningEnvs)

LocateToolAnyProbe == Locate(ProbeEnvs)

\* the rest of main, after find_esptool
Flash ==
  \/ ResolvePorts
  \/ AcquireFirmware
  \/ CheckFirmware
  \/ CheckBootloader
  \/ CheckPartitions
  \/ EraseStep
  \/ WriteStep
  \/ Cleanup
  \/ Summary
  \/ Interrupt

Next == LocateTool \/ Flash

NextAnyProbe == LocateToolAnyProbe \/ Flash

\* a run in which every probe of find_esptool returns a status
Spec == Init /\ [][Next]_vars

\* a run in which the probes of find_esptool may also raise
SpecAnyProbe == Init /\ [][NextAnyProbe]_vars

-----------------------------------------------------------------------------
(* Vocabulary of the properties *)

Targets == 1..Len(ports)

\* the for-loop ran off the end of ports
LoopDone == pc \in {"cleanup", "summary"} \/ exit_reason = "completed"

PreconditionExits == {"tool_not_found", "no_ports", "download_failed",
                      "firmware_missing", "bootloader_missing",
                      "partitions_missing"}

OutcomesOf(t) == {k \in DOMAIN outcomes : outcomes[k].target = t}

CallsOf(t, command) ==
  {k \in DOMAIN procs : procs[k].target = t /\ procs[k].call.command = command}

EraseFailedOn(t) ==
  \E k \in CallsOf(t, "erase_flash") : procs[k].call.rc = "nonzero"

EraseSucceededOn(t) ==
  \E k \in CallsOf(t, "erase_flash") : procs[k].call.rc = "zero"

WriteSucceededOn(t) ==
  \E k \in CallsOf(t, "write_flash") : procs[k].call.rc = "zero"

-----------------------------------------------------------------------------
(* C1 *)

\* C1: once the flash loop has finished, the target list is non-empty, the
\* tally satisfies 0 <= succeeded <= total, every target has exactly one
\* outcome out of {Success, EraseFailed, WriteFailed}, and the printed summary
\* carries total = number of targets and that tally.
C1_SummaryBounds ==
  LoopDone =>
    /\ Len(ports) >= 1
    /\ 0 <= success_count /\ success_count <= Len(ports)
    /\ \A t \in Targets : Cardinality(OutcomesOf(t)) = 1
    /\ \A k \in DOMAIN outcomes :
         /\ outcomes[k].target \in Targets
         /\ outcomes[k].outcome \in {"Success", "EraseFailed", "WriteFailed"}
    /\ \A k \in DOMAIN summary :
         /\ summary[k].total = Len(ports)
         /\ summary[k].succeeded = success_count
         /\ 0 <= summary[k].succeeded /\ summary[k].succeeded <= summary[k].total

\* a finished run over two targets with one success and one failure
C1_Witness ==
  /\ exit_reason = "completed"
  /\ Len(ports) = 2
  /\ summary # <<>> /\ summary[1].succeeded = 1
  /\ \E k \in DOMAIN outcomes : outcomes[k].outcome = "EraseFailed"

-----------------------------------------------------------------------------
(* C2 *)

\* C2: when erase is requested and the erase of a target exits non-zero, that
\* target has exactly one outcome, EraseFailed, write_flash is never invoked
\* for it, and it is not among the counted successes (the tally equals the
\* number of Success outcomes).
C2_EraseFailureSkipsWrite ==
  /\ \A t \in Targets :
       (~args.no_erase /\ EraseFailedOn(t)) =>
         /\ CallsOf(t, "write_flash") = {}
         /\ Cardinality(OutcomesOf(t)) = 1
         /\ \A k \in OutcomesOf(t) : outcomes[k].outcome = "EraseFailed"
  /\ success_count =
       Cardinality({k \in DOMAIN outcomes : outcomes[k].outcome = "Success"})

\* the first target's erase failed and the run went on to finish
C2_Witness ==
  /\ exit_reason = "completed"
  /\ ~args.no_erase
  /\ EraseFailedOn(1)
  /\ Len(ports) = 2 /\ success_count = 1

-----------------------------------------------------------------------------
(* C3 *)

\* C3: targets are processed one at a time in input order (every invocation
\* belongs to the current or an earlier target, a target's erase precedes its
\* write, outcomes are recorded in target order) and the loop leaves only
\* after the last target: inside the loop exactly the targets before the
\* current one have outcomes, and after it every target has one.
C3_SequentialNoEarlyExit ==
  /\ \A j, k \in DOMAIN procs :
       j < k =>
         /\ procs[j].target <= procs[k].target
         /\ procs[j].target = procs[k].target =>
              /\ procs[j].call.command = "erase_flash"
              /\ procs[k].call.command = "write_flash"
  /\ \A k \in DOMAIN outcomes : outcomes[k].target = k
  /\ pc \in {"erase", "write"} =>
       /\ idx \in Targets
       /\ Len(outcomes) = idx - 1
       /\ \A k \in DOMAIN procs : procs[k].target <= idx
  /\ LoopDone => Len(outcomes) = Len(ports)

\* the first target failed and the second target was still flashed
C3_Witness ==
  /\ Len(outcomes) = 2
  /\ outcomes[1].outcome \in {"EraseFailed", "WriteFailed"}
  /\ outcomes[2].outcome = "Success"
  /\ CallsOf(2, "write_flash") # {}

-----------------------------------------------------------------------------
(* C4 *)

\* C4: a run that ends on a precondition failure ends with status 1 and has
\* invoked no erase or write; and no erase or write is ever invoked unless the
\* tool was found, a port is known, and firmware, bootloader and partition
\* files were all present when checked.
C4_PreconditionsFatal ==
  /\ exit_reason \in PreconditionExits =>
       /\ pc = "exited"
       /\ exit_code = 1
       /\ procs = <<>>
       /\ outcomes = <<>>
  /\ procs # <<>> =>
       /\ esptool_path # None
       /\ ports # <<>>
       /\ firmware_path # None
       /\ firmware_path \in files \/ removal = "removed"
       /\ BootloaderFile \in files
       /\ PartitionsFile \in files

\* the download succeeded but the partition table is missing
C4_Witness ==
  /\ exit_reason = "partitions_missing"
  /\ downloaded_firmware # None
  /\ exit_code = 1

-----------------------------------------------------------------------------
(* C5 *)

\* C5: a run whose loop ran to completion and that was not interrupted exits
\* with status 0 whatever the tally; status 1 is reached only through a
\* precondition failure, an unhandled exception or a keyboard interrupt; and
\* an exited process has status 0 or 1.
C5_ExitCodes ==
  /\ (pc = "exited" /\ idx > Len(ports) /\ exit_reason # "interrupt") =>
       exit_code = 0 /\ exit_reason = "completed"
  /\ exit_reason = "completed" => (exit_code = 0 /\ pc = "exited")
  /\ exit_code = 1 =>
       exit_reason \in PreconditionExits \cup {"exception", "interrupt"}
  /\ pc = "exited" <=> exit_code \in {0, 1}

\* every target failed and the process still exited 0
C5_Witness ==
  /\ pc = "exited" /\ exit_code = 0
  /\ Len(ports) = 2 /\ success_count = 0

-----------------------------------------------------------------------------
(* C6 *)

\* C6: when the firmware was downloaded and --keep-firmware is absent, a run
\* that ends by one of the program's own exits (normal completion or a
\* precondition failure) has deleted the temporary file, unless the operating
\* system refused the deletion; a local firmware file is never deleted; a
\* downloaded file is never deleted under --keep-firmware.
C6_TempFileDeleted ==
  /\ (/\ pc = "exited"
      /\ exit_reason \in PreconditionExits \cup {"completed"}
      /\ downloaded_firmware # None
      /\ ~args.keep_firmware)
       => (downloaded_firmware \notin files \/ removal = "failed")
  /\ (/\ firmware_path = LocalFirmware
      /\ \/ pc \in {"check_bootloader", "check_partitions", "erase", "write",
                     "cleanup", "summary"}
         \/ exit_reason \in {"bootloader_missing", "partitions_missing",
                              "completed"})
       => LocalFirmware \in files
  /\ (downloaded_firmware # None /\ args.keep_firmware) =>
       downloaded_firmware \in files

-----------------------------------------------------------------------------
(* C7 *)

\* find_esptool has returned (it always makes at least one attempt)
Located == probes # <<>>

ClaimedRank(tool) ==
  CASE tool \in {"esptool.py", "esptool"} -> 1
    [] tool = LookupName -> 2
    [] tool = "sys_executable_bin_esptool" -> 3
    [] tool = ModuleName -> 4

\* C7 as stated: bare command names are tried before the which/where lookup,
\* then the filesystem guess, then the module form, and whatever is returned
\* was accepted by a version probe that exited zero.
C7_ClaimedOrder ==
  Located =>
    /\ \A j, k \in DOMAIN probes :
         j < k => ClaimedRank(probes[j].tool) <= ClaimedRank(probes[k].tool)
    /\ esptool_path # None =>
         /\ probes[Len(probes)].cmd = "version"
         /\ probes[Len(probes)].rc = "zero"

CodeOrder == <<LookupName>> \o possible_paths \o <<ModuleName>>

ReturnedFor(tool) ==
  IF tool = LookupName THEN "which_stdout_first_line" ELSE tool

\* C7 amended: the which/where lookup is tried first and is accepted on its
\* own zero status, with no version probe; then the names of possible_paths
\* in order, then the module form, each accepted only after a version probe
\* exits zero.  The first success is returned (every earlier attempt failed,
\* no later one is made) and None is returned only if all five failed.
C7_LocatorOrder ==
  Located =>
    /\ Len(probes) <= Len(CodeOrder)
    /\ \A k \in DOMAIN probes :
         /\ probes[k].tool = CodeOrder[k]
         /\ probes[k].cmd = IF k = 1 THEN "lookup" ELSE "version"
         /\ k < Len(probes) => probes[k].rc # "zero"
    /\ IF probes[Len(probes)].rc = "zero"
       THEN esptool_path = ReturnedFor(probes[Len(probes)].tool)
       ELSE esptool_path = None /\ Len(probes) = Len(CodeOrder)

\* four strategies failed and the module form was accepted
C7_Witness ==
  /\ esptool_path = ModuleName
  /\ Len(probes) = Len(CodeOrder)
  /\ probes[1].rc = "nonzero" /\ probes[2].rc = "raised"

-----------------------------------------------------------------------------
(* C8 *)

\* C8 as stated: without --port and with an empty discovery the run exits 1
\* and no subprocess has run at all.
C8_NoSubprocessAtAll ==
  exit_reason = "no_ports" =>
    /\ exit_code = 1
    /\ procs = <<>>
    /\ \A k \in DOMAIN probes : probes[k].rc = "raised"

\* C8 amended: without --port, once discovery has returned, an empty port
\* list means the run has exited with status 1 for lack of ports, having
\* invoked no erase or write; the only subprocesses run are the tool
\* locator's probes, the last of which exited zero.
C8_NoPortsExit ==
  /\ (/\ args.port = 0
      /\ ports = <<>>
      /\ pc \notin {"find_esptool", "ports"}
      /\ exit_reason \notin {"tool_not_found", "exception", "interrupt"})
       => exit_reason = "no_ports"
  /\ exit_reason = "no_ports" =>
       /\ pc = "exited" /\ exit_code = 1
       /\ args.port = 0 /\ ports = <<>>
       /\ procs = <<>>
       /\ probes # <<>> /\ probes[Len(probes)].rc = "zero"

\* no ports found after the locator accepted its third attempt
C8_Witness ==
  /\ exit_reason = "no_ports"
  /\ Len(probes) = 3
  /\ exit_code = 1

-----------------------------------------------------------------------------
(* C9 *)

Spawned(k) == procs[k].call.rc # "raised"

\* C9 as stated: every invocation's non-empty standard output is printed,
\* whether it exited zero or not, and its standard error is printed exactly
\* when it exited non-zero.
C9_StdoutAlways ==
  \A k \in DOMAIN procs :
    Spawned(k) =>
      /\ procs[k].call.out => procs[k].call.printed_out
      /\ procs[k].call.printed_err <=> procs[k].call.rc = "nonzero"

\* C9 amended: each erase or write attempt is one invocation (per target at
\* most one erase and one write, and the log grows by one entry per attempt);
\* standard error is printed iff the invocation exited non-zero; standard
\* output is printed iff it exited zero and the output is non-empty, so the
\* output of a failed invocation is not printed.
C9_OutputSurfacing ==
  /\ \A k \in DOMAIN procs :
       /\ procs[k].call.printed_err <=> procs[k].call.rc = "nonzero"
       /\ procs[k].call.printed_out <=>
            (procs[k].call.rc = "zero" /\ procs[k].call.out)
  /\ \A t \in Targets :
       /\ Cardinality(CallsOf(t, "erase_flash")) <= 1
       /\ Cardinality(CallsOf(t, "write_flash")) <= 1
  /\ \A k \in DOMAIN outcomes :
       LET t == outcomes[k].target
           n == Cardinality(CallsOf(t, "erase_flash"))
                + Cardinality(CallsOf(t, "write_flash"))
       IN  n = IF outcomes[k].outcome = "EraseFailed" \/ args.no_erase
               THEN 1 ELSE 2

\* a failed invocation with output on stdout, and a successful one
C9_Witness ==
  /\ \E k \in DOMAIN procs :
       /\ procs[k].call.rc = "nonzero" /\ procs[k].call.out
       /\ procs[k].call.printed_err /\ ~procs[k].call.printed_out
  /\ \E k \in DOMAIN procs :
       /\ procs[k].call.rc = "zero" /\ procs[k].call.out
       /\ procs[k].call.printed_out /\ ~procs[k].call.printed_err

-----------------------------------------------------------------------------
(* C10 *)

\* C10: after the loop the tally equals the number of targets whose write was
\* invoked and exited zero; write is invoked exactly once for each target
\* whose erase was skipped or succeeded and not at all for the others; under
\* --no-erase no erase is ever invoked.
C10_TallyMatchesWrites ==
  /\ LoopDone =>
       /\ success_count = Cardinality({t \in Targets : WriteSucceededOn(t)})
       /\ \A t \in Targets :
            Cardinality(CallsOf(t, "write_flash")) =
              IF args.no_erase \/ EraseSucceededOn(t) THEN 1 ELSE 0
  /\ args.no_erase =>
       \A k \in DOMAIN procs : procs[k].call.command # "erase_flash"

\* --no-erase, one write succeeded and one failed
C10_Witness ==
  /\ exit_reason = "completed"
  /\ args.no_erase
  /\ Len(ports) = 2 /\ success_count = 1
  /\ Len(procs) = 2

====
